---------------------------- MODULE Spec2Model ----------------------------
(***************************************************************************)
(* FIM completion server (src/server-file.ts): the completeController      *)
(* request handler, the context windowing, the prompt template, the        *)
(* single-flight flag isProcessing, callFimModelAPI and the response       *)
(* clean-up postProcessSuggestion / stripCodeBlock.                        *)
(*                                                                         *)
(* A JavaScript string is a sequence of one-character strings; indices in  *)
(* the operators below are the 0-based indices of the source.              *)
(***************************************************************************)
EXTENDS Integers, Sequences, FiniteSets, TLC

-----------------------------------------------------------------------------
(* Configuration constants, src/server-file.ts:6-18 *)

FIM_PREFIX_TOKEN ==
  <<"<","|","f","i","m","_","p","r","e","f","i","x","|",">">>

FIM_SUFFIX_TOKEN ==
  <<"<","|","f","i","m","_","s","u","f","f","i","x","|",">">>

FIM_MIDDLE_TOKEN ==
  <<"<","|","f","i","m","_","m","i","d","d","l","e","|",">">>

CURSOR_MARKER ==
  <<"<","|","C","U","R","S","O","R","|",">">>

FILE_SEPARATOR ==
  <<"\n","\n","-","-","-"," ","F","I","L","E",":"," ">>

QWEN_IM_START ==
  <<"<","|","i","m","_","s","t","a","r","t","|",">">>

QWEN_IM_END ==
  <<"<","|","i","m","_","e","n","d","|",">">>

SYSTEM_INSTRUCTION ==
  <<"Y","o","u"," ","a","r","e"," ","a"," ","c","o","n","c","i","s","e"," ",
    "c","o","d","e"," ","c","o","m","p","l","e","t","i","o","n"," ","e","n",
    "g","i","n","e","."," ","O","n","l","y"," ","o","u","t","p","u","t"," ",
    "c","o","d","e",","," ","n","o","t","h","i","n","g"," ","e","l","s","e",
    ".">>

CONTEXT_LIMIT ==
  2000

TOOL_RESPONSE_END ==
  <<"<","/","t","o","o","l","_","r","e","s","p","o","n","s","e",">">>

(* A plausible slip: the file separator left out of the list *)
stopTokensNoSeparator ==
  << FIM_PREFIX_TOKEN, FIM_SUFFIX_TOKEN, FIM_MIDDLE_TOKEN,
     QWEN_IM_START, QWEN_IM_END, TOOL_RESPONSE_END >>

(* The list the loop of postProcessSuggestion walks, in its order. *)
stopTokens ==
  << FIM_PREFIX_TOKEN, FIM_SUFFIX_TOKEN, FIM_MIDDLE_TOKEN,
     QWEN_IM_START, QWEN_IM_END, TOOL_RESPONSE_END, FILE_SEPARATOR >>

-----------------------------------------------------------------------------
(* JavaScript string primitives used by the source *)

(* White space as String.prototype.trim / trimEnd and the regex class \s   *)
(* see it, restricted to the characters the model's texts are made of.     *)
IsWs(c) ==
  c \in {" ", "\n", "\t", "\r"}

(* [a-zA-Z0-9] of the regex in stripCodeBlock *)
IsAlnum(c) ==
  c \in {"a","b","c","d","e","f","g","h","i","j","k","l","m","n","o","p","q",
         "r","s","t","u","v","w","x","y","z",
         "A","B","C","D","E","F","G","H","I","J","K","L","M","N","O","P","Q",
         "R","S","T","U","V","W","X","Y","Z",
         "0","1","2","3","4","5","6","7","8","9"}

(* t occurs in s at 0-based index i *)
MatchAt(s, t, i) ==
  /\ i >= 0
  /\ i + Len(t) <= Len(s)
  /\ \A k \in 1..Len(t) : s[i + k] = t[k]

(* s.indexOf(t): the first index, or -1; 0 for the empty needle *)
IndexOf(s, t) ==
  IF \E i \in 0..(Len(s) - Len(t)) : MatchAt(s, t, i)
  THEN CHOOSE i \in 0..(Len(s) - Len(t)) :
         MatchAt(s, t, i) /\ \A j \in 0..(i - 1) : ~MatchAt(s, t, j)
  ELSE -1

(* s.lastIndexOf(t): the last index, or -1; s.length for the empty needle *)
LastIndexOf(s, t) ==
  IF \E i \in 0..(Len(s) - Len(t)) : MatchAt(s, t, i)
  THEN CHOOSE i \in 0..(Len(s) - Len(t)) :
         MatchAt(s, t, i) /\ \A j \in (i + 1)..(Len(s) - Len(t)) : ~MatchAt(s, t, j)
  ELSE -1

(* s.substring(a, b) for 0 <= a, b; arguments above s.length are clamped   *)
(* and swapped when a > b, as the language defines.                        *)
Substring(s, a, b) ==
  LET ca == IF a > Len(s) THEN Len(s) ELSE IF a < 0 THEN 0 ELSE a
      cb == IF b > Len(s) THEN Len(s) ELSE IF b < 0 THEN 0 ELSE b
      lo == IF ca <= cb THEN ca ELSE cb
      hi == IF ca <= cb THEN cb ELSE ca
  IN SubSeq(s, lo + 1, hi)

(* s.substring(a) *)
SubstringFrom(s, a) ==
  Substring(s, a, Len(s))

(* s.trimEnd() *)
TrimEnd(s) ==
  LET n == CHOOSE i \in 0..Len(s) :
             /\ (i = 0 \/ ~IsWs(s[i]))
             /\ \A j \in (i + 1)..Len(s) : IsWs(s[j])
  IN SubSeq(s, 1, n)

(* s.trimStart() *)
TrimStart(s) ==
  LET n == CHOOSE i \in 1..(Len(s) + 1) :
             /\ (i = Len(s) + 1 \/ ~IsWs(s[i]))
             /\ \A j \in 1..(i - 1) : IsWs(s[j])
  IN SubSeq(s, n, Len(s))

(* s.trim() *)
Trim(s) ==
  TrimStart(TrimEnd(s))

(* s.replace(t, r) with a string pattern: only the first occurrence *)
ReplaceFirst(s, t, r) ==
  LET i == IndexOf(s, t)
  IN IF i = -1 THEN s
     ELSE SubSeq(s, 1, i) \o r \o SubSeq(s, i + Len(t) + 1, Len(s))

(* s.split('\n')[0]: the text before the first line break, or all of s *)
SplitFirstLine(s) ==
  LET i == IndexOf(s, <<"\n">>)
  IN IF i = -1 THEN s ELSE SubSeq(s, 1, i)

(* Math.floor(excess * 0.7) in IEEE-754 double arithmetic.  0.7 is stored  *)
(* as 0.7 - 0.4 * 2^-53, so for excess = 10k the product 7k is rounded     *)
(* one unit in the last place down when 4k exceeds the largest power of    *)
(* two not above 7k (excess = 90, 170, 180, 330, ...), and the floor is    *)
(* then 7k - 1.  Everywhere else it is the integer quotient 7*excess/10.   *)
RECURSIVE Pow2Floor(_)
Pow2Floor(n) ==
  IF n < 2 THEN 1 ELSE 2 * Pow2Floor(n \div 2)

FloorTimes07(excess) ==
  IF excess > 0 /\ excess % 10 = 0
       /\ 4 * (excess \div 10) > Pow2Floor(7 * (excess \div 10))
  THEN (7 * excess) \div 10 - 1
  ELSE (7 * excess) \div 10

Min(a, b) ==
  IF a <= b THEN a ELSE b

-----------------------------------------------------------------------------
(* completeController, the synchronous part before the model call *)

(* context_text.replace('  ', '').trim(), line 41 *)
Normalise(context_text) ==
  Trim(ReplaceFirst(context_text, <<" ", " ">>, <<>>))

(* Lines 56-68: the two contents after the truncation to CONTEXT_LIMIT *)
Window(prefixContent, suffixContent) ==
  LET combinedLength == Len(prefixContent) + Len(suffixContent)
      excess == combinedLength - CONTEXT_LIMIT
      trimPrefixBy == Min(FloorTimes07(excess), Len(prefixContent))
      trimSuffixBy == Min(excess - trimPrefixBy, Len(suffixContent))
  IN IF combinedLength > CONTEXT_LIMIT
     THEN [prefixContent |-> SubstringFrom(prefixContent, trimPrefixBy),
           suffixContent |-> Substring(suffixContent, 0,
                                       Len(suffixContent) - trimSuffixBy)]
     ELSE [prefixContent |-> prefixContent, suffixContent |-> suffixContent]

(* Lines 72-85: the FIM structure inside the Qwen instruction template *)
BuildPrompt(prefixContent, suffixContent) ==
  LET fimStructure == FIM_PREFIX_TOKEN \o prefixContent \o FIM_SUFFIX_TOKEN
                        \o suffixContent \o FIM_MIDDLE_TOKEN
  IN QWEN_IM_START \o <<"s","y","s","t","e","m","\n">> \o SYSTEM_INSTRUCTION
       \o QWEN_IM_END \o <<"\n">>
       \o QWEN_IM_START \o <<"u","s","e","r","\n">> \o fimStructure
       \o QWEN_IM_END \o <<"\n">>
       \o QWEN_IM_START \o <<"a","s","s","i","s","t","a","n","t","\n">>

(* Lines 39-85 as one value: whether the marker was found and, if so, the *)
(* windowed contents and the prompt.                                      *)
Prepare(context_text) ==
  LET context_text_updated == Normalise(context_text)
      cursorIndex == IndexOf(context_text_updated, CURSOR_MARKER)
      w == Window(Substring(context_text_updated, 0, cursorIndex),
                  SubstringFrom(context_text_updated,
                                cursorIndex + Len(CURSOR_MARKER)))
  IN IF cursorIndex = -1
     THEN [found |-> FALSE, prefixContent |-> <<>>, suffixContent |-> <<>>,
           fimPrompt |-> <<>>]
     ELSE [found |-> TRUE, prefixContent |-> w.prefixContent,
           suffixContent |-> w.suffixContent,
           fimPrompt |-> BuildPrompt(w.prefixContent, w.suffixContent)]

-----------------------------------------------------------------------------
(* postProcessSuggestion, lines 116-152 *)

(* A plausible slip: the first occurrence of the prompt instead of the last *)
StripPromptEchoFirst(rawSuggestion, fimPrompt) ==
  LET promptIndex == IndexOf(rawSuggestion, fimPrompt)
  IN IF promptIndex # -1
     THEN SubstringFrom(rawSuggestion, promptIndex + Len(fimPrompt))
     ELSE rawSuggestion

(* Stage 1, lines 120-123 *)
StripPromptEcho(rawSuggestion, fimPrompt) ==
  LET promptIndex == LastIndexOf(rawSuggestion, fimPrompt)
  IN IF promptIndex # -1
     THEN SubstringFrom(rawSuggestion, promptIndex + Len(fimPrompt))
     ELSE rawSuggestion

(* A plausible slip: cutting at the last occurrence of a token *)
CutAtTokenLast(cleanedSuggestion, token) ==
  LET index == LastIndexOf(cleanedSuggestion, token)
  IN IF index # -1
     THEN TrimEnd(Substring(cleanedSuggestion, 0, index))
     ELSE cleanedSuggestion

(* One iteration of the loop, lines 135-138 *)
CutAtToken(cleanedSuggestion, token) ==
  LET index == IndexOf(cleanedSuggestion, token)
  IN IF index # -1
     THEN TrimEnd(Substring(cleanedSuggestion, 0, index))
     ELSE cleanedSuggestion

(* Stage 2, lines 134-139: the loop from the k-th token on *)
RECURSIVE StopLoop(_, _)
StopLoop(cleanedSuggestion, k) ==
  IF k > Len(stopTokens) THEN cleanedSuggestion
  ELSE StopLoop(CutAtToken(cleanedSuggestion, stopTokens[k]), k + 1)

(* Stage 3, lines 142-149 *)
TrimSuffixOverlap(cleanedSuggestion, suffixContent) ==
  LET firstSuffixCodeLine == Trim(SplitFirstLine(suffixContent))
      overlapIndex == IndexOf(cleanedSuggestion, firstSuffixCodeLine)
  IN IF Len(firstSuffixCodeLine) > 0 /\ overlapIndex > 0
     THEN TrimEnd(Substring(cleanedSuggestion, 0, overlapIndex))
     ELSE cleanedSuggestion

postProcessSuggestion(rawSuggestion, suffixContent, fimPrompt) ==
  Trim(TrimSuffixOverlap(StopLoop(StripPromptEcho(rawSuggestion, fimPrompt), 1),
                         suffixContent))

-----------------------------------------------------------------------------
(* stripCodeBlock, lines 157-170 *)

(* The fence of three grave accents; the character is written "GRAVE"     *)
(* because the lexer of the language does not take it inside a string.    *)
FENCE ==
  <<"GRAVE", "GRAVE", "GRAVE">>

(* The regex of line 158 against codeBlock, anchored at both ends: the     *)
(* text must be white space, a fence, a run of alphanumerics, a line       *)
(* break, the captured group, a line break, a fence, white space.  The     *)
(* greedy quantifiers leave one way to match: the leading white space and  *)
(* the alphanumeric run are maximal, and the closing fence is the one the  *)
(* trailing white space follows.  matched is FALSE when there is no match. *)
CodeBlockMatch(codeBlock) ==
  LET s1 == TrimStart(codeBlock)
      a == CHOOSE n \in 0..Len(s1) :
             /\ \A j \in 1..n : 3 + j <= Len(s1) /\ IsAlnum(s1[3 + j])
             /\ (3 + n + 1 > Len(s1) \/ ~IsAlnum(s1[3 + n + 1]))
      rest == TrimEnd(SubstringFrom(s1, 3 + a + 1))
      closing == <<"\n">> \o FENCE
  IN IF /\ MatchAt(s1, FENCE, 0)
        /\ MatchAt(s1, <<"\n">>, 3 + a)
        /\ Len(rest) >= Len(closing)
        /\ MatchAt(rest, closing, Len(rest) - Len(closing))
     THEN [matched |-> TRUE,
           group |-> Substring(rest, 0, Len(rest) - Len(closing))]
     ELSE [matched |-> FALSE, group |-> <<>>]

stripCodeBlock(codeBlock) ==
  LET match == CodeBlockMatch(codeBlock)
  IN IF match.matched /\ Len(match.group) > 0
     THEN Trim(match.group)
     ELSE Trim(codeBlock)

-----------------------------------------------------------------------------
(* State *)

VARIABLES
  isProcessing,   \* the module-level flag of line 24
  requests,       \* the POST /complete requests: where each stands, its answer
  san,            \* one run of postProcessSuggestion, and a second on its result
  win             \* one run of the windowing of completeController

vars == <<isProcessing, requests, san, win>>

(* Bounds of the model *)
MaxRequests ==
  3

MaxRawPieces ==
  3

MaxExtra ==
  4

RequestIds == 1..MaxRequests

RECURSIVE Concat(_)
Concat(pieces) ==
  IF Len(pieces) = 0 THEN <<>> ELSE Head(pieces) \o Concat(Tail(pieces))

NoRequest ==
  [pc |-> "idle", context_text |-> <<>>, suffixContent |-> <<>>,
   fimPrompt |-> <<>>, calls |-> 0, status |-> 0, error |-> "", text |-> <<>>]

NoSan ==
  [pc |-> "off", raw |-> <<>>, suffix |-> <<>>, prompt |-> <<>>,
   out |-> <<>>, out2 |-> <<>>]

NoWin ==
  [pc |-> "off", context_text |-> <<>>, prefixLen |-> 0, suffixLen |-> 0,
   found |-> FALSE, prefixContent |-> <<>>, suffixContent |-> <<>>]

InProcessText ==
  <<"i","n"," ","p","r","o","c","e","s","s">>

-----------------------------------------------------------------------------
(* The server: requests against the single-flight flag *)

(* Request bodies a client may send *)
Contexts ==
  { <<"a">> \o CURSOR_MARKER \o <<"r", ";", "\n", "z">>,
    <<" ", "a", " ", " ", "b">> \o CURSOR_MARKER,
    <<"a", " ", " ", "b", "\n">>,
    <<"<","|","C","U","R"," "," ","S","O","R","|",">","b">> }

(* Texts the model may generate for a request *)
Generated ==
  { <<>>,
    <<"x">>,
    <<"x">> \o QWEN_IM_END \o <<"\n", "y">>,
    <<"x", "\n", "r", ";">>,
    FENCE \o <<"t", "s", "\n", "x", "\n">> \o FENCE }

(* data.response of the model's JSON answer: a generated text, or the      *)
(* echo of the prompt followed by one                                      *)
ModelResponses(fimPrompt) ==
  Generated \cup { fimPrompt \o <<"x">> \o QWEN_IM_END \o <<"\n", "y">> }

Answer(r, status, error, text) ==
  [requests[r] EXCEPT !.pc = "done", !.status = status, !.error = error,
                      !.text = text]

(* A plausible slip: the call is admitted but the flag is never raised *)
ReceiveFlagNotSet(r, context_text) ==
  LET p == Prepare(context_text)
      req == [requests[r] EXCEPT !.context_text = context_text]
  IN /\ requests[r].pc = "idle"
     /\ \A q \in 1..(r - 1) : requests[q].pc # "idle"
     /\ IF ~p.found
        THEN /\ requests' = [requests EXCEPT ![r] =
                   [req EXCEPT !.pc = "done", !.status = 400,
                               !.error = "Cursor marker missing."]]
             /\ UNCHANGED isProcessing
        ELSE IF isProcessing
        THEN /\ requests' = [requests EXCEPT ![r] =
                   [req EXCEPT !.pc = "done", !.status = 200,
                               !.text = InProcessText]]
             /\ UNCHANGED isProcessing
        ELSE /\ requests' = [requests EXCEPT ![r] =
                   [req EXCEPT !.pc = "fetch", !.calls = @ + 1,
                               !.suffixContent = p.suffixContent,
                               !.fimPrompt = p.fimPrompt]]
             /\ UNCHANGED isProcessing
     /\ UNCHANGED <<san, win>>

(* A plausible slip: the busy branch answers but does not return *)
ReceiveBusyFallsThrough(r, context_text) ==
  LET p == Prepare(context_text)
      req == [requests[r] EXCEPT !.context_text = context_text]
  IN /\ requests[r].pc = "idle"
     /\ \A q \in 1..(r - 1) : requests[q].pc # "idle"
     /\ IF ~p.found
        THEN /\ requests' = [requests EXCEPT ![r] =
                   [req EXCEPT !.pc = "done", !.status = 400,
                               !.error = "Cursor marker missing."]]
             /\ UNCHANGED isProcessing
        ELSE /\ requests' = [requests EXCEPT ![r] =
                   [req EXCEPT !.pc = "fetch", !.calls = @ + 1,
                               !.status = IF isProcessing THEN 200 ELSE 0,
                               !.text = IF isProcessing THEN InProcessText
                                        ELSE <<>>,
                               !.suffixContent = p.suffixContent,
                               !.fimPrompt = p.fimPrompt]]
             /\ isProcessing' = TRUE
     /\ UNCHANGED <<san, win>>

(* completeController from its entry to the first suspension, lines 38-96  *)
(* and, inside callFimModelAPI, lines 172-194: the marker check, the       *)
(* windowing, the prompt, the gate check and, when admitted, the flag and  *)
(* the start of the fetch.  Requests arrive in the order of their ids.     *)
Receive(r, context_text) ==
  LET p == Prepare(context_text)
      req == [requests[r] EXCEPT !.context_text = context_text]
  IN /\ requests[r].pc = "idle"
     /\ \A q \in 1..(r - 1) : requests[q].pc # "idle"
     /\ IF ~p.found
        THEN /\ requests' = [requests EXCEPT ![r] =
                   [req EXCEPT !.pc = "done", !.status = 400,
                               !.error = "Cursor marker missing."]]
             /\ UNCHANGED isProcessing
        ELSE IF isProcessing
        THEN /\ requests' = [requests EXCEPT ![r] =
                   [req EXCEPT !.pc = "done", !.status = 200,
                               !.text = InProcessText]]
             /\ UNCHANGED isProcessing
        ELSE /\ requests' = [requests EXCEPT ![r] =
                   [req EXCEPT !.pc = "fetch", !.calls = @ + 1,
                               !.suffixContent = p.suffixContent,
                               !.fimPrompt = p.fimPrompt]]
             /\ isProcessing' = TRUE
     /\ UNCHANGED <<san, win>>

(* A plausible slip: the release after the try block instead of in finally *)
FetchSettlesNoFinally(r, outcome) ==
  /\ requests[r].pc = "fetch"
  /\ IF outcome = "ok"
     THEN /\ requests' = [requests EXCEPT ![r].pc = "json"]
          /\ UNCHANGED isProcessing
     ELSE /\ requests' = [requests EXCEPT ![r] =
                Answer(r, 500, "Failed to generate AI suggestion.", <<>>)]
          /\ UNCHANGED isProcessing
  /\ UNCHANGED <<san, win>>

(* A plausible slip: a failed fetch is tried once more before giving up *)
FetchSettlesRetries(r, outcome) ==
  /\ requests[r].pc = "fetch"
  /\ IF outcome = "ok"
     THEN /\ requests' = [requests EXCEPT ![r].pc = "json"]
          /\ UNCHANGED isProcessing
     ELSE IF requests[r].calls < 2
     THEN /\ requests' = [requests EXCEPT ![r].calls = @ + 1]
          /\ UNCHANGED isProcessing
     ELSE /\ requests' = [requests EXCEPT ![r] =
                Answer(r, 500, "Failed to generate AI suggestion.", <<>>)]
          /\ isProcessing' = FALSE
  /\ UNCHANGED <<san, win>>

(* The fetch of line 194 settles: it resolves with a 2xx response (the     *)
(* call goes on to await response.json()), resolves with another status    *)
(* (line 201 throws) or rejects.  A throw runs the finally of line 211 and  *)
(* then the catch of the controller, lines 103-106.                         *)
FetchSettles(r, outcome) ==
  /\ requests[r].pc = "fetch"
  /\ IF outcome = "ok"
     THEN /\ requests' = [requests EXCEPT ![r].pc = "json"]
          /\ UNCHANGED isProcessing
     ELSE /\ requests' = [requests EXCEPT ![r] =
                Answer(r, 500, "Failed to generate AI suggestion.", <<>>)]
          /\ isProcessing' = FALSE
  /\ UNCHANGED <<san, win>>

(* response.json() of line 204 resolves with a body that carries a string  *)
(* in data.response: lines 206 and 211, then lines 100-101.                 *)
JsonResolves(r, response) ==
  /\ requests[r].pc = "json"
  /\ requests' = [requests EXCEPT ![r] =
        Answer(r, 200, "",
               postProcessSuggestion(stripCodeBlock(response),
                                     requests[r].suffixContent,
                                     requests[r].fimPrompt))]
  /\ isProcessing' = FALSE
  /\ UNCHANGED <<san, win>>

(* A plausible slip: the failure of response.json() leaves the flag up *)
JsonFailsNoRelease(r) ==
  /\ requests[r].pc = "json"
  /\ requests' = [requests EXCEPT ![r] =
        Answer(r, 500, "Failed to generate AI suggestion.", <<>>)]
  /\ UNCHANGED isProcessing
  /\ UNCHANGED <<san, win>>

(* response.json() rejects (the body is not JSON), or data.response is     *)
(* absent and codeBlock.match of line 161 throws: lines 208-211, then the  *)
(* catch of the controller.                                                *)
JsonFails(r) ==
  /\ requests[r].pc = "json"
  /\ requests' = [requests EXCEPT ![r] =
        Answer(r, 500, "Failed to generate AI suggestion.", <<>>)]
  /\ isProcessing' = FALSE
  /\ UNCHANGED <<san, win>>

Init ==
  /\ isProcessing = FALSE
  /\ requests = [r \in RequestIds |-> NoRequest]
  /\ san = NoSan
  /\ win = NoWin

Next ==
  \/ \E r \in RequestIds, c \in Contexts : Receive(r, c)
  \/ \E r \in RequestIds, o \in {"ok", "status", "reject"} : FetchSettles(r, o)
  \/ \E r \in RequestIds :
       \E d \in ModelResponses(requests[r].fimPrompt) : JsonResolves(r, d)
  \/ \E r \in RequestIds : JsonFails(r)

Spec == Init /\ [][Next]_vars

(* The model call of request r returns or fails *)
Settles(r) ==
  \/ JsonFails(r)
  \/ \E o \in {"ok", "status", "reject"} : FetchSettles(r, o)
  \/ \E d \in ModelResponses(requests[r].fimPrompt) : JsonResolves(r, d)

(* The model call in flight (there is at most one) returns or fails *)
ModelCallSettles ==
  \E r \in RequestIds : Settles(r)

(* The server under the assumption that every model call eventually       *)
(* returns or fails: the endpoint answers, or the connection breaks        *)
SpecFair ==
  Init /\ [][Next]_vars /\ WF_vars(ModelCallSettles)

-----------------------------------------------------------------------------
(* postProcessSuggestion on its own: every raw text made of at most        *)
(* MaxRawPieces pieces, against a suffix and a prompt, and once more on    *)
(* its own result                                                          *)

SanSuffixes ==
  { <<>>,
    <<"r", ";", "\n", "z">>,
    <<"\n", " ", "r", ";">> }

(* The empty prompt, a prompt that is also a character of generated code,  *)
(* and the prompt completeController builds for the suffix                 *)
SanPrompts(suffix) ==
  { <<>>, <<"x">>, BuildPrompt(<<"a">>, suffix) }

SanPieces(suffix, prompt) ==
  << <<"x">>, <<" ">>, <<"\n">>, <<"r", ";">>, QWEN_IM_END, FILE_SEPARATOR,
     prompt >>

SanInit ==
  /\ isProcessing = FALSE
  /\ requests = [r \in RequestIds |-> NoRequest]
  /\ win = NoWin
  /\ \E suffix \in SanSuffixes :
       \E prompt \in SanPrompts(suffix) :
         \E n \in 0..MaxRawPieces :
           \E f \in [1..n -> 1..Len(SanPieces(suffix, prompt))] :
             san = [pc |-> "in",
                    raw |-> Concat([i \in 1..n |->
                                      SanPieces(suffix, prompt)[f[i]]]),
                    suffix |-> suffix, prompt |-> prompt,
                    out |-> <<>>, out2 |-> <<>>]

Sanitize ==
  /\ san.pc = "in"
  /\ san' = [san EXCEPT !.pc = "out",
               !.out = postProcessSuggestion(san.raw, san.suffix, san.prompt)]
  /\ UNCHANGED <<isProcessing, requests, win>>

SanitizeAgain ==
  /\ san.pc = "out"
  /\ san' = [san EXCEPT !.pc = "again",
               !.out2 = postProcessSuggestion(san.out, san.suffix, san.prompt)]
  /\ UNCHANGED <<isProcessing, requests, win>>

SanNext ==
  \/ Sanitize
  \/ SanitizeAgain

SpecSanitize == SanInit /\ [][SanNext]_vars

-----------------------------------------------------------------------------
(* The windowing on its own: a prefix and a suffix of lengths around zero, *)
(* half the limit and the limit, around the cursor marker                  *)

WinBases ==
  {0, 45, CONTEXT_LIMIT \div 2, CONTEXT_LIMIT, CONTEXT_LIMIT + 45}

WinLens ==
  { b + e : b \in WinBases, e \in 0..MaxExtra }

(* Texts whose characters tell their positions apart *)
PrefixText(n) ==
  [i \in 1..n |-> <<"a", "b", "c", "d", "e", "f", "g">>[(i % 7) + 1]]

SuffixText(n) ==
  [i \in 1..n |-> <<"t", "u", "v", "w", "y">>[(i % 5) + 1]]

WinInit ==
  /\ isProcessing = FALSE
  /\ requests = [r \in RequestIds |-> NoRequest]
  /\ san = NoSan
  /\ \E pl \in WinLens, sl \in WinLens :
       win = [NoWin EXCEPT !.pc = "in", !.prefixLen = pl, !.suffixLen = sl,
                !.context_text = PrefixText(pl) \o CURSOR_MARKER
                                   \o SuffixText(sl)]

DoWindow ==
  /\ win.pc = "in"
  /\ LET p == Prepare(win.context_text)
     IN win' = [win EXCEPT !.pc = "done", !.found = p.found,
                  !.prefixContent = p.prefixContent,
                  !.suffixContent = p.suffixContent]
  /\ UNCHANGED <<isProcessing, requests, san>>

WinNext ==
  DoWindow

SpecWindow == WinInit /\ [][WinNext]_vars

-----------------------------------------------------------------------------
(* Properties of the server *)

(* The requests whose model call has started and not yet finished *)
InFlight ==
  { r \in RequestIds : requests[r].pc \in {"fetch", "json"} }

Includes(s, t) ==
  IndexOf(s, t) # -1

(* Request r is received in this step *)
Arrives(r) ==
  requests[r].pc = "idle" /\ requests'[r].pc # "idle"

(* The model call of request r finishes in this step *)
Finishes(r) ==
  requests[r].pc \in {"fetch", "json"} /\ requests'[r].pc = "done"

(* C1: in every interleaving of requests at most one model invocation is   *)
(* in flight, and the flag is up exactly while one is.                     *)
C1_AtMostOneInFlight ==
  /\ Cardinality(InFlight) <= 1
  /\ isProcessing <=> InFlight # {}

C1_Witness ==
  \E r, q \in RequestIds :
    /\ requests[r].pc = "done" /\ requests[r].calls = 1
    /\ requests[q].pc = "json" /\ requests[q].calls = 1
    /\ isProcessing

(* C2: a request whose context_text contains the marker and that arrives   *)
(* while the gate is busy is answered at once with 200 "in process": it    *)
(* starts no model call, is not queued, leaves every other request as it   *)
(* was and leaves the flag up.                                             *)
C2_BusyShortCircuits ==
  [][\A r \in RequestIds :
       (Arrives(r) /\ isProcessing
          /\ Includes(requests'[r].context_text, CURSOR_MARKER))
       => /\ requests'[r].pc = "done"
          /\ requests'[r].status = 200
          /\ requests'[r].error = ""
          /\ requests'[r].text = InProcessText
          /\ requests'[r].calls = 0
          /\ \A q \in RequestIds \ {r} : requests'[q] = requests[q]
          /\ isProcessing']_vars

C2_Witness ==
  \E r, q \in RequestIds :
    /\ requests[q].pc = "fetch"
    /\ requests[r].pc = "done" /\ requests[r].calls = 0
    /\ requests[r].status = 200 /\ requests[r].text = InProcessText
    /\ Includes(requests[r].context_text, CURSOR_MARKER)
    /\ isProcessing

(* C3: the flag is down after the model call finishes on any path, and a   *)
(* request with a marker that arrives when no call is in flight starts a   *)
(* model call instead of being answered "in process".                      *)
C3_GateReleased ==
  [][\A r \in RequestIds :
       /\ Finishes(r) => ~isProcessing'
       /\ (Arrives(r) /\ InFlight = {}
             /\ Includes(requests'[r].context_text, CURSOR_MARKER))
          => requests'[r].pc = "fetch" /\ requests'[r].calls = 1]_vars

C3_Witness ==
  \E r, q \in RequestIds :
    /\ requests[r].pc = "done" /\ requests[r].status = 500
    /\ requests[r].calls = 1
    /\ requests[q].pc = "fetch" /\ requests[q].calls = 1

(* C5: a request whose context_text does not contain the marker is         *)
(* answered 400 "Cursor marker missing." and starts no model call,         *)
(* whatever the gate and whatever the normalisation does to the text.      *)
C5_NoMarkerIs400 ==
  [][\A r \in RequestIds :
       (Arrives(r) /\ ~Includes(requests'[r].context_text, CURSOR_MARKER))
       => /\ requests'[r].pc = "done"
          /\ requests'[r].status = 400
          /\ requests'[r].error = "Cursor marker missing."
          /\ requests'[r].calls = 0
          /\ requests'[r].fimPrompt = <<>>
          /\ isProcessing' = isProcessing]_vars

-----------------------------------------------------------------------------
(* Properties of the windowing *)

(* C4: after windowing the two contents together are at most CONTEXT_LIMIT *)
(* long, and exactly CONTEXT_LIMIT long when they were longer before, for  *)
(* every split of the text between prefix and suffix.                      *)
C4_WindowFitsLimit ==
  (win.pc = "done" /\ win.found)
  => /\ Len(win.prefixContent) + Len(win.suffixContent) <= CONTEXT_LIMIT
     /\ (win.prefixLen + win.suffixLen > CONTEXT_LIMIT
           => Len(win.prefixContent) + Len(win.suffixContent) = CONTEXT_LIMIT)

-----------------------------------------------------------------------------
(* Properties of postProcessSuggestion *)

(* The control strings the suggestion must be free of, as the claim lists  *)
(* them                                                                    *)
ControlStrings ==
  { FIM_PREFIX_TOKEN, FIM_SUFFIX_TOKEN, FIM_MIDDLE_TOKEN, QWEN_IM_START,
    QWEN_IM_END, TOOL_RESPONSE_END, FILE_SEPARATOR }

NoControlString(s) ==
  \A t \in ControlStrings : ~Includes(s, t)

(* s cut at the earliest first occurrence of any control string *)
CutAtFirstStop(s) ==
  LET hits == { i \in 0..Len(s) : \E t \in ControlStrings : MatchAt(s, t, i) }
  IN IF hits = {} THEN s
     ELSE SubSeq(s, 1, CHOOSE i \in hits : \A j \in hits : i <= j)

(* The line of the suffix that follows the cursor, trimmed *)
LineAfterCursor(suffix) ==
  Trim(SplitFirstLine(suffix))

(* C6: the returned string contains none of the seven control strings.     *)
C6_NoControlStrings ==
  san.pc # "in" => NoControlString(san.out)

C6_Witness ==
  /\ san.pc = "out"
  /\ Includes(san.raw, QWEN_IM_END)
  /\ Includes(san.raw, FILE_SEPARATOR)
  /\ Len(san.out) > 0

(* C7: when the line that follows the cursor is not empty after trimming,  *)
(* the returned suggestion does not begin with it, also when the cleaned   *)
(* output has the duplicate at position zero.                              *)
C7_NoLeadingDuplicate ==
  (san.pc # "in" /\ Len(LineAfterCursor(san.suffix)) > 0)
  => ~MatchAt(san.out, LineAfterCursor(san.suffix), 0)

(* C8: running postProcessSuggestion on its own result, with the same      *)
(* suffix and prompt, returns that result.                                 *)
C8_Idempotent ==
  san.pc = "again" => san.out2 = san.out

C8_Witness ==
  /\ san.pc = "again"
  /\ Len(san.out) > 0
  /\ san.out # Trim(san.raw)
  /\ Len(san.prompt) > 0
  /\ Len(LineAfterCursor(san.suffix)) > 0

(* C9: with the empty prompt the echo stage removes nothing: with the      *)
(* empty suffix too, the result is the trimmed text before the first stop  *)
(* token of raw.                                                           *)
C9_EmptyPromptKeepsText ==
  (san.pc # "in" /\ san.prompt = <<>> /\ san.suffix = <<>>)
  => san.out = Trim(CutAtFirstStop(san.raw))

(* C10: with the empty suffix, when raw is the prompt followed by a text   *)
(* g without stop token and the prompt occurs in raw at position 0 only,   *)
(* the result is g trimmed; and when the prompt occurs several times,      *)
(* everything up to and including its last occurrence is discarded.        *)
C10_PromptEchoStripped ==
  LET last == LastIndexOf(san.raw, san.prompt)
      g == SubstringFrom(san.raw, last + Len(san.prompt))
  IN (san.pc # "in" /\ san.suffix = <<>> /\ last # -1 /\ NoControlString(g))
     => san.out = Trim(g)

C10_Witness ==
  /\ san.pc = "out"
  /\ san.suffix = <<>>
  /\ Len(san.prompt) > 1
  /\ IndexOf(san.raw, san.prompt) = 0
  /\ LastIndexOf(san.raw, san.prompt) > 0
  /\ Len(san.out) > 0
  /\ san.out = Trim(SubstringFrom(san.raw, LastIndexOf(san.raw, san.prompt)
                                             + Len(san.prompt)))

-----------------------------------------------------------------------------
(* Properties of the suffix-overlap stage *)

(* The first line of s that is not blank, trimmed; empty when every line   *)
(* is blank                                                                *)
RECURSIVE FirstNonBlankLine(_)
FirstNonBlankLine(s) ==
  LET i == IndexOf(s, <<"\n">>)
      line == Trim(SplitFirstLine(s))
  IN IF Len(line) > 0 THEN line
     ELSE IF i = -1 THEN <<>>
     ELSE FirstNonBlankLine(SubstringFrom(s, i + 1))

(* The text stage 3 receives: raw after the echo strip and the stop loop *)
Stage2(raw, prompt) ==
  StopLoop(StripPromptEcho(raw, prompt), 1)

(* C11: when the suffix has a non-blank line, L being the first of them    *)
(* trimmed, and L first occurs in the stage-2 result at a position above   *)
(* zero, the suggestion is the stage-2 result cut at that occurrence and   *)
(* trimmed, also when the suffix begins with a line break.                 *)
C11_OverlapUsesFirstNonBlankLine ==
  LET L == FirstNonBlankLine(san.suffix)
      s2 == Stage2(san.raw, san.prompt)
  IN (san.pc # "in" /\ Len(L) > 0 /\ IndexOf(s2, L) > 0)
     => san.out = Trim(Substring(s2, 0, IndexOf(s2, L)))

-----------------------------------------------------------------------------
(* Properties of the failure path *)

(* C12: an admitted request (marker present, gate idle) invokes the model  *)
(* exactly once; when the invocation fails (the fetch resolves with a      *)
(* non-2xx status or rejects) the request is answered 500 "Failed to       *)
(* generate AI suggestion.", without a retry and without a suggestion      *)
(* from postProcessSuggestion.                                             *)
C12_FailureIs500NoRetry ==
  [][\A r \in RequestIds :
       /\ (Arrives(r) /\ ~isProcessing
             /\ Includes(requests'[r].context_text, CURSOR_MARKER))
          => requests'[r].pc = "fetch" /\ requests'[r].calls = 1
       /\ requests'[r].calls <= 1
       /\ (requests[r].pc = "fetch" /\ requests'[r] # requests[r])
          => /\ requests'[r].pc \in {"json", "done"}
             /\ requests'[r].calls = 1
       /\ (requests[r].pc = "fetch" /\ requests'[r].pc = "done")
          => /\ requests'[r].status = 500
             /\ requests'[r].error = "Failed to generate AI suggestion."
             /\ requests'[r].text = <<>>
       /\ requests[r].pc = "done" => requests'[r] = requests[r]]_vars

C12_Witness ==
  \E r \in RequestIds :
    /\ requests[r].pc = "done" /\ requests[r].status = 500
    /\ requests[r].error = "Failed to generate AI suggestion."
    /\ requests[r].calls = 1 /\ requests[r].text = <<>>
    /\ ~isProcessing
    /\ \A q \in RequestIds \ {r} : requests[q].pc = "idle"

-----------------------------------------------------------------------------
(* Properties of the trim policy *)

(* C13: when the two contents together exceed the limit by excess, the     *)
(* windowed prefix is the original prefix without its first                *)
(* min(floor(0.7 * excess), |prefix|) characters and the windowed suffix   *)
(* is the original suffix without its last min(excess - prefixTrim,        *)
(* |suffix|) characters, floor(0.7 * excess) being the integer part of     *)
(* seven tenths of excess.                                                 *)
C13_TrimPolicy ==
  LET excess == win.prefixLen + win.suffixLen - CONTEXT_LIMIT
      prefixTrim == Min((7 * excess) \div 10, win.prefixLen)
      suffixTrim == Min(excess - prefixTrim, win.suffixLen)
  IN (win.pc = "done" /\ win.found /\ excess > 0)
     => /\ win.prefixContent
             = SubSeq(PrefixText(win.prefixLen), prefixTrim + 1, win.prefixLen)
        /\ win.suffixContent
             = SubSeq(SuffixText(win.suffixLen), 1, win.suffixLen - suffixTrim)

-----------------------------------------------------------------------------
(* Properties of a call that does not complete *)

(* C14: as long as an admitted model call has not completed the gate is    *)
(* busy: every request with a cursor marker that arrives meanwhile is      *)
(* answered "in process" and starts no model call, and the flag goes down  *)
(* only when a call finishes; and when every model call eventually returns *)
(* or fails, a busy gate is eventually idle again.                         *)
C14_BusyUntilCallCompletes ==
  /\ [](InFlight # {} => isProcessing)
  /\ [][\A r \in RequestIds :
          (Arrives(r) /\ InFlight # {}
             /\ Includes(requests'[r].context_text, CURSOR_MARKER))
          => /\ requests'[r].pc = "done"
             /\ requests'[r].text = InProcessText
             /\ requests'[r].calls = 0
             /\ InFlight' = InFlight
             /\ isProcessing']_vars
  /\ [][(isProcessing /\ ~isProcessing')
          => \E r \in RequestIds : Finishes(r)]_vars
  /\ (isProcessing ~> ~isProcessing)

C14_Witness ==
  \E r, q \in RequestIds :
    /\ requests[r].pc = "done" /\ requests[r].calls = 1
    /\ requests[q].pc = "done" /\ requests[q].calls = 0
    /\ requests[q].text = InProcessText
    /\ InFlight = {}
    /\ ~isProcessing

-----------------------------------------------------------------------------
(* Properties of the stop-token stage *)

(* C15: the result of the loop over stopTokens is the echo-stripped text   *)
(* cut at the earliest first occurrence of any of the seven stop strings   *)
(* and right-trimmed, whatever the order of the list, so the suggestion    *)
(* holds no character from that occurrence on, also when the file          *)
(* separator is immediately followed by another control token.             *)
C15_StopLoopCutsAtEarliest ==
  LET s1 == StripPromptEcho(san.raw, san.prompt)
  IN san.pc # "in"
     => /\ StopLoop(s1, 1) = IF NoControlString(s1) THEN s1
                              ELSE TrimEnd(CutAtFirstStop(s1))
        /\ san.suffix = <<>> => san.out = Trim(CutAtFirstStop(s1))

=============================================================================
